---- MODULE Spec2Model ----
(***************************************************************************)
(* Meeting-audio lifecycle of the notulen frontend: the meeting detail     *)
(* view (MeetingDetailsContainer.vue) with its polling timer, status       *)
(* watcher and delete flow, the record view (RecordContainer.vue) with its *)
(* upload gate, the two data hooks (useMeetings.ts, useAudioFiles.ts) and   *)
(* the REST store and processing service they talk to.                     *)
(*                                                                         *)
(* One meeting id is modelled.  A step of the model is one macrotask of    *)
(* the browser's event loop: a user event, a timer callback or the arrival *)
(* of a response, run up to the next network await.  Jobs the step queues  *)
(* (the status watcher, the continuation of onMounted) are microtasks:     *)
(* they run one per step, before any other macrotask.  A request reads or  *)
(* writes the store when it is issued; its response arrives any time       *)
(* later, so a response can be stale.                                      *)
(***************************************************************************)
EXTENDS Integers, Sequences, FiniteSets, TLC

\* ------------------------------------------------------------------ bounds
MaxAudio == 2          \* audio records ever created for the meeting
MaxUploads == 1        \* uploads made while the detail view is watched
MaxInFlight == 1       \* poll callbacks in flight at once, whole view explored
MaxOverlap == 2        \* poll callbacks in flight at once, polling explored alone
MaxTimers == 2         \* interval timers that can be alive at once
MaxLen == 2            \* length of the texts the status resolver is fed
NumRecordViews == 2    \* record views open on the meeting
MaxMeetings == 2       \* meetings of the group shown by the list view

\* ------------------------------------------------------- program constants
MAX_POLL_COUNT == 60

AudioIds == 1..MaxAudio
TimerIds == 1..MaxTimers
Slots == 1..MaxOverlap
RecordViews == 1..NumRecordViews

\* ------------------------------------------------------------------ values
\* A JS string is a sequence of characters; null is kept apart from "".
Chars == {" ", "H"}
NullText == [isNull |-> TRUE, text |-> <<>>]
Text(s) == [isNull |-> FALSE, text |-> s]
EmptyText == Text(<<>>)
HelloText == Text(<<"H">>)
RecapText == <<"H">>

\* A summary is null or an object: its set of keys and the value of its
\* `summary` key (the empty text when the key is absent or holds "").
SummaryKeys == {"summary", "action_items"}
NullSummary == [isNull |-> TRUE, keys |-> {}, summary |-> <<>>]
Summary(ks, s) == [isNull |-> FALSE, keys |-> ks, summary |-> s]
EmptySummary == Summary({}, <<>>)
FullSummary == Summary(SummaryKeys, RecapText)

NullMeeting ==
  [isNull |-> TRUE, name |-> "", transcript |-> NullText, summary |-> NullSummary]
Meeting(n, t, s) == [isNull |-> FALSE, name |-> n, transcript |-> t, summary |-> s]

NoError == "null"
NoTimer == 0
NoFile == 0

\* ---------------------------------------------------------- String.trim()
IsSpace(c) == c = " "

RECURSIVE TrimStart(_)
TrimStart(s) ==
  IF s = <<>> THEN s
  ELSE IF IsSpace(Head(s)) THEN TrimStart(Tail(s)) ELSE s

RECURSIVE TrimEnd(_)
TrimEnd(s) ==
  IF s = <<>> THEN s
  ELSE IF IsSpace(s[Len(s)]) THEN TrimEnd(SubSeq(s, 1, Len(s) - 1)) ELSE s

Trim(s) == TrimEnd(TrimStart(s))

\* ------------------------------------------------ processing status (view)
\* The transcript test without the trim.
HasTranscriptNoTrim(m) ==
  /\ ~m.isNull
  /\ ~m.transcript.isNull
  /\ m.transcript.text # <<>>

\* !!m?.transcript && m.transcript.trim() !== ''
HasTranscriptOf(m) ==
  /\ ~m.isNull
  /\ ~m.transcript.isNull
  /\ m.transcript.text # <<>>
  /\ Trim(m.transcript.text) # <<>>

\* if (!m?.summary) false; if no keys false; !!m.summary.summary
HasSummaryOf(m) ==
  IF m.isNull \/ m.summary.isNull THEN FALSE
  ELSE IF Cardinality(m.summary.keys) = 0 THEN FALSE
  ELSE "summary" \in m.summary.keys /\ m.summary.summary # <<>>

\* audioFiles.length > 0 && (!hasTranscriptContent || !hasSummaryContent)
IsWaitingOf(files, m) ==
  Cardinality(files) > 0 /\ (~HasTranscriptOf(m) \/ ~HasSummaryOf(m))

\* The template's three displays: "No recordings yet" (v-if audioFiles.length
\* === 0), the "Processing audio" banner (v-if isWaitingForProcessing), and
\* otherwise the recording with its summary and transcript.
StatusOf(files, m) ==
  IF Cardinality(files) = 0 THEN "empty"
  ELSE IF IsWaitingOf(files, m) THEN "processing"
  ELSE "ready"

\* The poll callback's own stop condition on the fetched meeting.
IsCompleteMeeting(m) ==
  /\ ~m.transcript.isNull /\ m.transcript.text # <<>>
  /\ Trim(m.transcript.text) # <<>>
  /\ ~m.summary.isNull
  /\ Cardinality(m.summary.keys) > 0
  /\ "summary" \in m.summary.keys /\ m.summary.summary # <<>>

\* ------------------------------------------------------------------- state
VARIABLES
  \* REST store and processing service
  storeMeeting,      \* the meeting row: name, transcript, summary
  storeAudio,        \* ids of the audio records whose meeting_id is the meeting
  jobs,              \* per audio id: stage of its processing job
  \* detail view: useMeetings() and useAudioFiles() instances
  currentMeeting, meetingLoading, meetingError, audioLoading, audioError,
  \* detail view: component state
  lifecycle,         \* "created", "mounted", "unmounted"
  audioFiles, showDeleteDialog, audioToDelete, deleteError, deletingAudio,
  pollingInterval, pollCount,
  timers,            \* interval timers alive in the window
  stoppedOnReady,    \* history: since polling last started, a callback that
                     \* fetched transcript and summary has called stopPolling
  pollFetches,       \* history: meeting fetches the poll callbacks have issued
                     \* since polling last started
  watchOld,          \* value the watcher of isWaitingForProcessing last saw
  micro,             \* queued microtasks of the detail view, in order
  flow,              \* the load or delete flow awaiting a response
  polls,             \* poll callbacks awaiting a response
  \* record views
  rec,
  \* result of the last evaluation of the status resolver
  resolved,
  \* meeting list view of the group
  groupMeetings,     \* number of meetings the store holds for the group
  list               \* the view's useMeetings() instance, its component
                     \* state and its requests awaiting a response

storeVars == <<storeMeeting, storeAudio, jobs>>
hookVars == <<currentMeeting, meetingLoading, meetingError, audioLoading, audioError>>
dialogVars == <<showDeleteDialog, audioToDelete, deleteError, deletingAudio>>
pollVars == <<pollingInterval, pollCount, timers, stoppedOnReady, pollFetches>>
detailVars ==
  <<hookVars, lifecycle, audioFiles, dialogVars, pollVars, watchOld, micro, flow, polls>>
listVars == <<groupMeetings, list>>
vars == <<storeVars, detailVars, rec, resolved, listVars>>

\* ------------------------------------------------------------------- store
\* GET /meetings/{id}
StoreGetMeeting == storeMeeting

\* GET /meetings/{id}/audio-files
StoreListAudio == storeAudio

\* PUT /meetings/{id} with partial fields: the named fields are replaced.
StoreUpdateMeeting(m, t, s) == [m EXCEPT !.transcript = t, !.summary = s]

\* DELETE /audio-files/{id}
StoreDeleteAudio(files, id) == files \ {id}

\* POST /upload-audio with a meeting_id: create(file, groupId, datetime, meetingId)
StoreCreateAudio(files, id) == files \cup {id}

\* The id the store gives the next audio record.
FreshAudioIds == {a \in AudioIds : jobs[a] = "none"}
NextAudioId == CHOOSE a \in FreshAudioIds : \A b \in FreshAudioIds : a <= b

\* ------------------------------------------- asynchronous processing service
\* The job of an uploaded record writes the transcript, later the summary,
\* whether or not the record still exists.
ServiceSetTranscript(a) ==
  /\ jobs[a] = "queued"
  /\ jobs' = [jobs EXCEPT ![a] = "transcribed"]
  /\ storeMeeting' = [storeMeeting EXCEPT !.transcript = HelloText]
  /\ UNCHANGED <<storeAudio, detailVars, rec, resolved, listVars>>

ServiceSetSummary(a) ==
  /\ jobs[a] = "transcribed"
  /\ jobs' = [jobs EXCEPT ![a] = "done"]
  /\ storeMeeting' = [storeMeeting EXCEPT !.summary = FullSummary]
  /\ UNCHANGED <<storeAudio, detailVars, rec, resolved, listVars>>

\* ------------------------------------------------- detail view: derivations
\* loading = meetingLoading || audioLoading
loading == meetingLoading \/ audioLoading

\* error = meetingError || audioError
error == IF meetingError # NoError THEN meetingError ELSE audioError

isWaitingForProcessing == IsWaitingOf(audioFiles, currentMeeting)

status == StatusOf(audioFiles, currentMeeting)

\* Template branches: loading / error / meeting details / not found.
Display ==
  IF loading THEN "loading"
  ELSE IF error # NoError THEN "error"
  ELSE IF ~currentMeeting.isNull THEN "details"
  ELSE "notFound"

\* ---------------------------------------------------- detail view: polling
PollState ==
  [pollingInterval |-> pollingInterval, pollCount |-> pollCount, timers |-> timers,
   stoppedOnReady |-> stoppedOnReady, pollFetches |-> pollFetches]

\* stopPolling(): clearInterval on the held timer, then forget it.
StopPolling(p) ==
  IF p.pollingInterval # NoTimer
  THEN [p EXCEPT !.timers = @ \ {p.pollingInterval}, !.pollingInterval = NoTimer]
  ELSE p

\* window.setInterval returns a timer id that is not in use.
NewTimer(ts) == CHOOSE t \in TimerIds \ ts : \A u \in TimerIds \ ts : t <= u

\* startPolling() without its leading stopPolling(): the held timer stays
\* alive beside the new one.
StartPollingStacking(p) ==
  LET t == NewTimer(p.timers)
  IN [pollingInterval |-> t, pollCount |-> 0, timers |-> p.timers \cup {t},
      stoppedOnReady |-> FALSE, pollFetches |-> 0]

\* startPolling(): stop, reset the count, set a new interval.
StartPolling(p) ==
  LET q == StopPolling(p)
      t == NewTimer(q.timers)
  IN [pollingInterval |-> t, pollCount |-> 0, timers |-> q.timers \cup {t},
      stoppedOnReady |-> FALSE, pollFetches |-> 0]

CanStartPolling(p) == TimerIds \ StopPolling(p).timers # {}

SetPoll(p) ==
  /\ pollingInterval' = p.pollingInterval
  /\ pollCount' = p.pollCount
  /\ timers' = p.timers
  /\ stoppedOnReady' = p.stoppedOnReady
  /\ pollFetches' = p.pollFetches

\* A view without the watcher of isWaitingForProcessing.
WatcherJobsDropped(life, files, m) == <<>>

\* The watcher's job is queued when a step changes what the computed value
\* depends on; it is a no-op unless the value differs from the one last seen.
\* The watcher is stopped with the component.
WatcherJobs(life, files, m) ==
  IF life # "unmounted" /\ IsWaitingOf(files, m) # watchOld
  THEN <<"watcher">> ELSE <<>>

\* ------------------------------------------------------ hook return values
FetchMeetingError == "Failed to fetch meeting"
FetchAudioError == "Failed to fetch audio files for meeting"
ClearError == "Failed to clear meeting data"
DeleteAudioError == "Failed to delete audio file"
DeleteDialogError == "Failed to delete the audio file. Please try again."

\* fetchAudioByMeetingId: the list on success, [] from its catch block.
FetchAudioResult(ok, data) == IF ok THEN data ELSE {}

\* fetchMeeting / fetchAudioByMeetingId: error.value after the call, given
\* the value it had when the response arrived.
ErrorAfter(ok, before, msg) == IF ok THEN before ELSE msg

\* A hook call that leaves error.value as it finds it.
ErrorKeptOnEntry(before) == before

\* fetchMeeting / fetchAudioByMeetingId: error.value = null on entry.
ErrorOnEntry(before) == NoError

\* --------------------------------------------------- detail view: load flow
IdleFlow ==
  [pc |-> "idle", kind |-> "none", fileId |-> NoFile, delOk |-> FALSE,
   clearOk |-> FALSE, meeting |-> NullMeeting, audio |-> {}, fromReady |-> FALSE]
IdlePoll == [pc |-> "idle", meeting |-> NullMeeting, audio |-> {}]

\* loadMeetingData up to its first await: fetchMeeting(meetingId) is issued.
LoadMeetingDataStart(kind) ==
  /\ meetingLoading' = TRUE
  /\ meetingError' = NoError
  /\ flow' = [IdleFlow EXCEPT !.pc = "loadMeeting", !.kind = kind,
                              !.meeting = StoreGetMeeting]
  /\ UNCHANGED <<storeVars, currentMeeting, audioLoading, audioError, audioFiles,
                 dialogVars, pollVars, watchOld, micro, polls, rec, resolved, listVars>>

\* onMounted, up to the first await of loadMeetingData.
Mount ==
  /\ lifecycle = "created" /\ micro = <<>>
  /\ lifecycle' = "mounted"
  /\ LoadMeetingDataStart("mount")

\* The Try Again button of the error display.
TryAgain ==
  /\ lifecycle = "mounted" /\ micro = <<>> /\ flow.pc = "idle"
  /\ Display = "error"
  /\ UNCHANGED lifecycle
  /\ LoadMeetingDataStart("retry")

\* The response of fetchMeeting arrives; fetchAudioByMeetingId is issued.
LoadMeetingResp ==
  /\ micro = <<>> /\ flow.pc = "loadMeeting"
  /\ \E ok \in BOOLEAN :
       LET m == IF ok THEN flow.meeting ELSE currentMeeting IN
       /\ currentMeeting' = m
       /\ meetingLoading' = TRUE
       /\ meetingError' = ErrorOnEntry(ErrorAfter(ok, meetingError, FetchMeetingError))
       /\ flow' = [flow EXCEPT !.pc = "loadAudio", !.meeting = NullMeeting,
                               !.audio = StoreListAudio]
       /\ micro' = WatcherJobs(lifecycle, audioFiles, m)
  /\ UNCHANGED <<storeVars, audioLoading, audioError, lifecycle, audioFiles,
                 dialogVars, pollVars, watchOld, polls, rec, resolved, listVars>>

\* The response of fetchAudioByMeetingId arrives; loadMeetingData returns.
LoadAudioResp ==
  /\ micro = <<>> /\ flow.pc = "loadAudio"
  /\ \E ok \in BOOLEAN :
       LET data == FetchAudioResult(ok, flow.audio) IN
       /\ audioFiles' = data
       /\ meetingError' = ErrorAfter(ok, meetingError, FetchAudioError)
       /\ meetingLoading' = FALSE
       /\ micro' = WatcherJobs(lifecycle, data, currentMeeting)
                     \o (IF flow.kind = "mount" THEN <<"mountCheck">> ELSE <<>>)
  /\ flow' = IdleFlow
  /\ UNCHANGED <<storeVars, currentMeeting, audioLoading, audioError, lifecycle,
                 dialogVars, pollVars, watchOld, polls, rec, resolved, listVars>>

\* ------------------------------------------------- detail view: microtasks
\* watch(isWaitingForProcessing, ...)
RunWatcher ==
  /\ micro # <<>> /\ Head(micro) = "watcher"
  /\ micro' = Tail(micro)
  /\ watchOld' = isWaitingForProcessing
  /\ IF isWaitingForProcessing = watchOld THEN UNCHANGED pollVars
     ELSE IF isWaitingForProcessing
          THEN CanStartPolling(PollState) /\ SetPoll(StartPolling(PollState))
          ELSE SetPoll(StopPolling(PollState))
  /\ UNCHANGED <<storeVars, hookVars, lifecycle, audioFiles, dialogVars, flow,
                 polls, rec, resolved, listVars>>

\* onMounted after `await loadMeetingData()`.
RunMountCheck ==
  /\ micro # <<>> /\ Head(micro) = "mountCheck"
  /\ micro' = Tail(micro)
  /\ IF isWaitingForProcessing
     THEN CanStartPolling(PollState) /\ SetPoll(StartPolling(PollState))
     ELSE UNCHANGED pollVars
  /\ UNCHANGED <<storeVars, hookVars, lifecycle, audioFiles, dialogVars, watchOld,
                 flow, polls, rec, resolved, listVars>>

\* onUnmounted
Unmount ==
  /\ lifecycle = "mounted" /\ micro = <<>>
  /\ lifecycle' = "unmounted"
  /\ SetPoll(StopPolling(PollState))
  /\ UNCHANGED <<storeVars, hookVars, audioFiles, dialogVars, watchOld, micro,
                 flow, polls, rec, resolved, listVars>>

\* ------------------------------------------------ detail view: poll callback
FreeSlots(n) == {s \in 1..n : polls[s].pc = "idle"}
FreeSlot(n) == CHOOSE s \in FreeSlots(n) : \A u \in FreeSlots(n) : s <= u

\* if (pollCount.value >= MAX_POLL_COUNT)
PollLimitReached(n) == n >= MAX_POLL_COUNT

\* A fetch that sets loading whether or not it was asked to.
LoadingAlwaysShown(showLoading, before) == TRUE

\* fetchMeeting and fetchAudioByMeetingId on entry:
\* if (showLoading) loading.value = true
LoadingOnEntry(showLoading, before) == IF showLoading THEN TRUE ELSE before

\* ... and in their finally block: if (showLoading) loading.value = false
LoadingOnExit(showLoading, before) == IF showLoading THEN FALSE ELSE before

\* An interval timer fires: the callback up to its first await.  At most k
\* callbacks are in flight at once.
Tick(t, k) ==
  /\ t \in timers /\ micro = <<>>
  /\ LET n == pollCount + 1 IN
     IF PollLimitReached(n)
     THEN /\ SetPoll(StopPolling([PollState EXCEPT !.pollCount = n]))
          /\ UNCHANGED <<meetingLoading, meetingError, polls>>
     ELSE /\ FreeSlots(k) # {}
          /\ pollCount' = n
          /\ pollFetches' = pollFetches + 1
          /\ meetingLoading' = LoadingOnEntry(FALSE, meetingLoading)
          /\ meetingError' = NoError
          /\ polls' = [polls EXCEPT ![FreeSlot(k)] =
                         [pc |-> "meeting", meeting |-> StoreGetMeeting, audio |-> {}]]
          /\ UNCHANGED <<pollingInterval, timers, stoppedOnReady>>
  /\ UNCHANGED <<storeVars, currentMeeting, audioLoading, audioError,
                 lifecycle, audioFiles, dialogVars, watchOld, micro, flow, rec,
                 resolved, listVars>>

\* The response of the callback's fetchMeeting(meetingId, false) arrives.
PollMeetingResp(s) ==
  /\ micro = <<>> /\ polls[s].pc = "meeting"
  /\ \E ok \in BOOLEAN :
       IF ok
       THEN /\ currentMeeting' = polls[s].meeting
            /\ meetingError' = NoError
            /\ meetingLoading' =
                 LoadingOnEntry(FALSE, LoadingOnExit(FALSE, meetingLoading))
            /\ polls' = [polls EXCEPT ![s].pc = "audio", ![s].audio = StoreListAudio]
            /\ micro' = WatcherJobs(lifecycle, audioFiles, polls[s].meeting)
       ELSE /\ meetingError' = FetchMeetingError
            /\ meetingLoading' = LoadingOnExit(FALSE, meetingLoading)
            /\ polls' = [polls EXCEPT ![s] = IdlePoll]
            /\ UNCHANGED <<currentMeeting, micro>>
  /\ UNCHANGED <<storeVars, audioLoading, audioError, lifecycle,
                 audioFiles, dialogVars, pollVars, watchOld, flow, rec, resolved, listVars>>

\* The response of the callback's fetchAudioByMeetingId(meetingId, false)
\* arrives; the callback runs to its end.
PollAudioResp(s) ==
  /\ micro = <<>> /\ polls[s].pc = "audio"
  /\ \E ok \in BOOLEAN :
       LET data == FetchAudioResult(ok, polls[s].audio) IN
       /\ audioFiles' = data
       /\ meetingError' = ErrorAfter(ok, meetingError, FetchAudioError)
       /\ micro' = WatcherJobs(lifecycle, data, currentMeeting)
  /\ IF IsCompleteMeeting(polls[s].meeting)
     THEN SetPoll([StopPolling(PollState) EXCEPT !.stoppedOnReady = TRUE])
     ELSE UNCHANGED pollVars
  /\ meetingLoading' = LoadingOnExit(FALSE, meetingLoading)
  /\ polls' = [polls EXCEPT ![s] = IdlePoll]
  /\ UNCHANGED <<storeVars, currentMeeting, audioLoading, audioError,
                 lifecycle, dialogVars, watchOld, flow, rec, resolved, listVars>>

\* ------------------------------------------------- detail view: delete flow
\* The Delete button of a listed recording.
OpenDeleteDialog(f) ==
  /\ lifecycle = "mounted" /\ micro = <<>> /\ Display = "details"
  /\ f \in audioFiles /\ f \notin deletingAudio
  /\ audioToDelete' = f
  /\ showDeleteDialog' = TRUE
  /\ deleteError' = NoError
  /\ UNCHANGED <<storeVars, hookVars, lifecycle, audioFiles, deletingAudio, pollVars,
                 watchOld, micro, flow, polls, rec, resolved, listVars>>

\* The Cancel button of the dialog.
CancelDelete ==
  /\ lifecycle = "mounted" /\ micro = <<>> /\ Display = "details"
  /\ showDeleteDialog
  /\ showDeleteDialog' = FALSE
  /\ audioToDelete' = NoFile
  /\ deleteError' = NoError
  /\ UNCHANGED <<storeVars, hookVars, lifecycle, audioFiles, deletingAudio, pollVars,
                 watchOld, micro, flow, polls, rec, resolved, listVars>>

\* History kept with a delete flow: when it began, the meeting was `ready`
\* with the file f as its one audio record, in the store and in the view, and
\* no processing job was pending.
DeleteBeginsFromReady(f) ==
  /\ storeAudio = {f} /\ audioFiles = {f}
  /\ StatusOf(storeAudio, storeMeeting) = "ready"
  /\ status = "ready"
  /\ \A a \in AudioIds : jobs[a] \in {"none", "done"}

\* confirmDeleteAudio up to its first await: deleteAudioFile(fileId) is
\* issued.  The store deletes an existing record unless the request fails.
ConfirmDeleteAudio ==
  /\ lifecycle = "mounted" /\ micro = <<>> /\ Display = "details"
  /\ showDeleteDialog /\ flow.pc = "idle"
  /\ audioToDelete # NoFile
  /\ audioToDelete \notin deletingAudio
  /\ \E ok \in {FALSE} \cup {audioToDelete \in storeAudio} :
       /\ storeAudio' = IF ok THEN StoreDeleteAudio(storeAudio, audioToDelete)
                        ELSE storeAudio
       /\ flow' = [IdleFlow EXCEPT !.pc = "delDelete", !.kind = "delete",
                                   !.fileId = audioToDelete, !.delOk = ok,
                                   !.fromReady = DeleteBeginsFromReady(audioToDelete)]
  /\ deletingAudio' = deletingAudio \cup {audioToDelete}
  /\ deleteError' = NoError
  /\ audioLoading' = TRUE
  /\ audioError' = NoError
  /\ UNCHANGED <<storeMeeting, jobs, currentMeeting, meetingLoading, meetingError,
                 lifecycle, audioFiles, showDeleteDialog, audioToDelete, pollVars,
                 watchOld, micro, polls, rec, resolved, listVars>>

\* A clearing update that sends null for both fields.
ClearedMeetingNull(m) == StoreUpdateMeeting(m, NullText, NullSummary)

\* A clearing update that sends the transcript alone.
ClearedTranscriptOnly(m) == StoreUpdateMeeting(m, EmptyText, m.summary)

\* The fields clearMeetingTranscriptAndSummary sends: transcript "" and summary {}.
ClearedMeeting(m) == StoreUpdateMeeting(m, EmptyText, EmptySummary)

\* The list the view shows once deleteAudioFile has returned.
FilesAfterDelete(files, fileId, ok) == {f \in files : f # fileId}

\* The response of deleteAudioFile arrives (the hook returns null when it
\* failed, it does not throw); the file leaves the list and
\* clearMeetingTranscriptAndSummary is issued.
DelDeleteResp ==
  /\ micro = <<>> /\ flow.pc = "delDelete"
  /\ audioError' = ErrorAfter(flow.delOk, audioError, DeleteAudioError)
  /\ audioLoading' = FALSE
  /\ audioFiles' = FilesAfterDelete(audioFiles, flow.fileId, flow.delOk)
  /\ micro' = WatcherJobs(lifecycle, audioFiles', currentMeeting)
  /\ meetingLoading' = TRUE
  /\ meetingError' = NoError
  /\ IF ~currentMeeting.isNull
     THEN /\ \E ok \in BOOLEAN :
               /\ storeMeeting' = IF ok THEN ClearedMeeting(storeMeeting)
                                  ELSE storeMeeting
               /\ flow' = [flow EXCEPT !.pc = "delClear", !.clearOk = ok,
                                       !.meeting = storeMeeting']
          /\ UNCHANGED <<showDeleteDialog, audioToDelete>>
     ELSE /\ showDeleteDialog' = FALSE
          /\ audioToDelete' = NoFile
          /\ flow' = [flow EXCEPT !.pc = "delRefresh", !.meeting = StoreGetMeeting]
          /\ UNCHANGED storeMeeting
  /\ UNCHANGED <<storeAudio, jobs, currentMeeting, lifecycle, deleteError,
                 deletingAudio, pollVars, watchOld, polls, rec, resolved, listVars>>

\* The response of clearMeetingTranscriptAndSummary arrives (null when it
\* failed); the dialog closes and fetchMeeting(meetingId) is issued.
DelClearResp ==
  /\ micro = <<>> /\ flow.pc = "delClear"
  /\ LET m == IF flow.clearOk /\ ~currentMeeting.isNull THEN flow.meeting
              ELSE currentMeeting IN
     /\ currentMeeting' = m
     /\ micro' = WatcherJobs(lifecycle, audioFiles, m)
  /\ meetingLoading' = TRUE
  /\ meetingError' = NoError
  /\ showDeleteDialog' = FALSE
  /\ audioToDelete' = NoFile
  /\ flow' = [flow EXCEPT !.pc = "delRefresh", !.meeting = StoreGetMeeting]
  /\ UNCHANGED <<storeVars, audioLoading, audioError, lifecycle, audioFiles,
                 deleteError, deletingAudio, pollVars, watchOld, polls, rec, resolved, listVars>>

\* The response of the refreshing fetchMeeting arrives; the flow ends.  No
\* hook call throws, so the catch block of confirmDeleteAudio never runs.
DelRefreshResp ==
  /\ micro = <<>> /\ flow.pc = "delRefresh"
  /\ \E ok \in BOOLEAN :
       LET m == IF ok THEN flow.meeting ELSE currentMeeting IN
       /\ currentMeeting' = m
       /\ meetingError' = ErrorAfter(ok, meetingError, FetchMeetingError)
       /\ micro' = WatcherJobs(lifecycle, audioFiles, m)
  /\ meetingLoading' = FALSE
  /\ deletingAudio' = deletingAudio \ {flow.fileId}
  /\ flow' = IdleFlow
  /\ UNCHANGED <<storeVars, audioLoading, audioError, lifecycle, audioFiles,
                 showDeleteDialog, audioToDelete, deleteError, pollVars, watchOld,
                 polls, rec, resolved, listVars>>

\* ------------------------------------------------------------- record view
MicError == "Could not access microphone. Please check permissions."
AlreadyHasAudioError ==
  "This meeting already has an audio recording. You cannot add another one."
UploadError == "Failed to upload audio file"
SaveError == "Failed to save audio. Please try again."

ClosedRecordView ==
  [pc |-> "closed", meeting |-> FALSE, existingAudioFiles |-> {},
   errorMessage |-> NoError, mediaRecorder |-> FALSE, recordingStatus |-> "inactive",
   audioUrl |-> FALSE, selectedFile |-> FALSE, activeTab |-> "record",
   isSaving |-> FALSE, uploadLoading |-> FALSE, uploadError |-> NoError,
   meetingLoading |-> FALSE, resp |-> {}, upOk |-> FALSE]

\* A record view whose gate never closes.
hasExistingAudioNever(v) == FALSE

\* hasExistingAudio = existingAudioFiles.length > 0
hasExistingAudio(v) == Cardinality(rec[v].existingAudioFiles) > 0

\* canSave
canSave(v) ==
  IF hasExistingAudio(v) THEN FALSE
  ELSE \/ rec[v].activeTab = "record" /\ rec[v].audioUrl
       \/ rec[v].activeTab = "upload" /\ rec[v].selectedFile

RecMounted(v) == rec[v].pc # "closed"

\* The main content (tabs, recorder, file area) is rendered v-if="!hasExistingAudio".
RecContentShown(v) == RecMounted(v) /\ ~hasExistingAudio(v)

\* onMounted: setupRecorder, then loadMeetingData up to fetchMeeting.
RecMount(v) ==
  /\ rec[v].pc = "closed"
  /\ \E mic \in BOOLEAN :
       rec' = [rec EXCEPT ![v] =
                 [ClosedRecordView EXCEPT !.pc = "loadMeeting", !.mediaRecorder = mic,
                    !.errorMessage = IF mic THEN NoError ELSE MicError,
                    !.meetingLoading = TRUE]]
  /\ UNCHANGED <<storeVars, detailVars, resolved, listVars>>

\* The response of fetchMeeting arrives; fetchAudioByMeetingId is issued.
RecLoadMeetingResp(v) ==
  /\ rec[v].pc = "loadMeeting"
  /\ \E ok \in BOOLEAN :
       rec' = [rec EXCEPT ![v].pc = "loadAudio", ![v].meeting = ok,
                          ![v].resp = StoreListAudio]
  /\ UNCHANGED <<storeVars, detailVars, resolved, listVars>>

\* The response of fetchAudioByMeetingId arrives: the gate is evaluated.
RecLoadAudioResp(v) ==
  /\ rec[v].pc = "loadAudio"
  /\ \E ok \in BOOLEAN :
       LET data == FetchAudioResult(ok, rec[v].resp) IN
       rec' = [rec EXCEPT ![v].pc = "open", ![v].existingAudioFiles = data,
                 ![v].errorMessage = IF Cardinality(data) > 0 THEN AlreadyHasAudioError
                                     ELSE @,
                 ![v].meetingLoading = FALSE, ![v].resp = {}]
  /\ UNCHANGED <<storeVars, detailVars, resolved, listVars>>

RecInteractive(v) == rec[v].pc \in {"loadMeeting", "loadAudio", "open"}

\* startRecording
RecStartRecording(v) ==
  /\ RecInteractive(v) /\ RecContentShown(v)
  /\ rec[v].activeTab = "record" /\ rec[v].recordingStatus = "inactive"
  /\ rec[v].mediaRecorder /\ ~hasExistingAudio(v)
  /\ rec' = [rec EXCEPT ![v].audioUrl = FALSE, ![v].recordingStatus = "recording"]
  /\ UNCHANGED <<storeVars, detailVars, resolved, listVars>>

\* stopRecording, and the recorder's onstop handler.
RecStopRecording(v) ==
  /\ RecInteractive(v) /\ RecContentShown(v)
  /\ rec[v].activeTab = "record" /\ rec[v].recordingStatus # "inactive"
  /\ rec[v].mediaRecorder
  /\ rec' = [rec EXCEPT ![v].audioUrl = TRUE, ![v].recordingStatus = "inactive"]
  /\ UNCHANGED <<storeVars, detailVars, resolved, listVars>>

\* handleFileChange with one chosen file.
RecHandleFileChange(v) ==
  /\ RecInteractive(v) /\ RecContentShown(v)
  /\ rec[v].activeTab = "upload"
  /\ ~hasExistingAudio(v)
  /\ rec' = [rec EXCEPT ![v].selectedFile = TRUE, ![v].audioUrl = FALSE,
                        ![v].recordingStatus = "inactive"]
  /\ UNCHANGED <<storeVars, detailVars, resolved, listVars>>

\* The tabs' @update:modelValue="cleanUp".
RecSwitchTab(v) ==
  /\ RecInteractive(v) /\ RecContentShown(v)
  /\ rec' = [rec EXCEPT ![v].activeTab = IF @ = "record" THEN "upload" ELSE "record",
                        ![v].selectedFile = FALSE, ![v].audioUrl = FALSE,
                        ![v].recordingStatus = "inactive"]
  /\ UNCHANGED <<storeVars, detailVars, resolved, listVars>>

\* The Save button is disabled while loading || isSaving || !canSave ||
\* hasExistingAudio.
RecSaveEnabled(v) ==
  /\ RecContentShown(v)
  /\ ~(rec[v].uploadLoading \/ rec[v].meetingLoading)
  /\ ~rec[v].isSaving
  /\ canSave(v)
  /\ ~hasExistingAudio(v)

\* uploadAudioFile sends the file and the meeting id; nothing is checked
\* before the POST.
UploadCreates(files, id) == StoreCreateAudio(files, id)

\* saveAudio up to the await of the POST in uploadAudioFile.  The store
\* creates the record unless the request fails.
RecSaveAudio(v) ==
  /\ rec[v].pc = "open" /\ RecSaveEnabled(v)
  /\ \E ok \in {FALSE} \cup {FreshAudioIds # {}} :
       /\ storeAudio' = IF ok THEN UploadCreates(storeAudio, NextAudioId)
                        ELSE storeAudio
       /\ jobs' = IF ok THEN [jobs EXCEPT ![NextAudioId] = "queued"] ELSE jobs
       /\ rec' = [rec EXCEPT ![v].pc = "uploading", ![v].isSaving = TRUE,
                             ![v].uploadLoading = TRUE, ![v].uploadError = NoError,
                             ![v].upOk = ok]
  /\ UNCHANGED <<storeMeeting, detailVars, resolved, listVars>>

\* The response of the POST arrives.  On success uploadAudioFile refreshes
\* the group's file list; on failure it returns null (it does not throw) and
\* saveAudio goes on to router.push, which leaves the view.
RecUploadResp(v) ==
  /\ rec[v].pc = "uploading"
  /\ rec' = [rec EXCEPT ![v] =
               IF rec[v].upOk THEN [@ EXCEPT !.pc = "refreshing"]
               ELSE ClosedRecordView]
  /\ UNCHANGED <<storeVars, detailVars, resolved, listVars>>

\* The response of fetchAudioFiles(groupId) arrives; uploadAudioFile returns
\* and saveAudio navigates to the meeting.
RecRefreshResp(v) ==
  /\ rec[v].pc = "refreshing"
  /\ rec' = [rec EXCEPT ![v] = ClosedRecordView]
  /\ UNCHANGED <<storeVars, detailVars, resolved, listVars>>

\* goBack: the Cancel and Go Back buttons.
RecGoBack(v) ==
  /\ RecInteractive(v)
  /\ rec' = [rec EXCEPT ![v] = ClosedRecordView]
  /\ UNCHANGED <<storeVars, detailVars, resolved, listVars>>

\* --------------------------------------------------------------- list view
FetchMeetingsError == "Failed to fetch meetings"
CreateMeetingError == "Failed to create meeting"
NoCreateError == ""

\* Names typed into the dialog: empty, blank, and one that survives the trim.
MeetingNames == {<<>>, <<" ">>, <<"H">>}

\* GET /meetings?group_id=...: the group's meetings, here their number.
StoreListMeetings == groupMeetings

\* POST /meetings
StoreCreateMeeting(n) == n + 1

\* The list view before it is mounted: the refs of its useMeetings()
\* instance, its dialog state, and no request awaiting a response.
ClosedListView ==
  [life |-> "created", meetings |-> 0, loading |-> FALSE, error |-> NoError,
   isDialogOpen |-> FALSE, newMeetingName |-> <<>>, isCreating |-> FALSE,
   createError |-> NoCreateError,
   fetchPc |-> "idle", fetchResp |-> 0,
   createPc |-> "idle", createOk |-> FALSE, createResp |-> 0]

InitListView == groupMeetings = 1 /\ list = ClosedListView

\* Operations of the list view's hook instance that are awaiting a response:
\* the fetchMeetings of the mount hook, and createMeeting with the
\* fetchMeetings it awaits.
ListOpsInFlight ==
  (IF list.fetchPc = "inflight" THEN 1 ELSE 0)
    + (IF list.createPc # "idle" THEN 1 ELSE 0)

\* The Create Meeting button: :disabled="isCreating || !newMeetingName.trim()"
ListCreateEnabled ==
  /\ list.isDialogOpen
  /\ ~list.isCreating /\ Trim(list.newMeetingName) # <<>>

\* The rows of the table are rendered: not loading, no error.
ListRowsShown == ~list.loading /\ list.error = NoError /\ list.meetings > 0

\* onMounted up to the await: fetchMeetings(props.groupId) is issued.
ListMount ==
  /\ list.life = "created"
  /\ list' = [list EXCEPT !.life = "mounted", !.loading = TRUE, !.error = NoError,
                          !.fetchPc = "inflight", !.fetchResp = StoreListMeetings]
  /\ UNCHANGED <<storeVars, detailVars, rec, resolved, groupMeetings>>

\* The response of the mount hook's fetchMeetings arrives; its finally block
\* clears loading.
ListFetchResp ==
  /\ list.fetchPc = "inflight"
  /\ \E ok \in BOOLEAN :
       list' = [list EXCEPT !.fetchPc = "idle",
                            !.meetings = IF ok THEN list.fetchResp ELSE @,
                            !.error = IF ok THEN @ ELSE FetchMeetingsError,
                            !.loading = FALSE]
  /\ UNCHANGED <<storeVars, detailVars, rec, resolved, groupMeetings>>

\* The Start New Meeting buttons.
ListOpenDialog ==
  /\ list.life = "mounted" /\ ~list.isDialogOpen
  /\ list' = [list EXCEPT !.isDialogOpen = TRUE]
  /\ UNCHANGED <<storeVars, detailVars, rec, resolved, groupMeetings>>

\* The name input of the dialog.
ListTypeName(name) ==
  /\ list.life = "mounted" /\ list.isDialogOpen
  /\ name # list.newMeetingName
  /\ list' = [list EXCEPT !.newMeetingName = name]
  /\ UNCHANGED <<storeVars, detailVars, rec, resolved, groupMeetings>>

\* The Cancel button of the dialog: isDialogOpen = false
ListCancelDialog ==
  /\ list.life = "mounted" /\ list.isDialogOpen
  /\ list' = [list EXCEPT !.isDialogOpen = FALSE]
  /\ UNCHANGED <<storeVars, detailVars, rec, resolved, groupMeetings>>

\* handleDialogChange(false): the dialog closes itself and the form is reset.
ListDialogChange ==
  /\ list.life = "mounted" /\ list.isDialogOpen
  /\ list' = [list EXCEPT !.isDialogOpen = FALSE, !.newMeetingName = <<>>,
                          !.createError = NoCreateError]
  /\ UNCHANGED <<storeVars, detailVars, rec, resolved, groupMeetings>>

\* handleCreateMeeting up to the await of the POST in createMeeting.  The
\* store creates the meeting unless the request fails.
ListCreateMeeting ==
  /\ list.life = "mounted" /\ ListCreateEnabled
  /\ \E ok \in {FALSE} \cup {groupMeetings < MaxMeetings} :
       /\ groupMeetings' = IF ok THEN StoreCreateMeeting(groupMeetings)
                           ELSE groupMeetings
       /\ list' = [list EXCEPT !.isCreating = TRUE, !.createError = NoCreateError,
                               !.loading = TRUE, !.error = NoError,
                               !.createPc = "post", !.createOk = ok]
  /\ UNCHANGED <<storeVars, detailVars, rec, resolved>>

\* createMeeting returns a meeting and handleCreateMeeting goes on: the
\* dialog is closed, the form is reset and router.push leaves the view.
ListCreated(l) ==
  [l EXCEPT !.loading = FALSE, !.createPc = "idle", !.isCreating = FALSE,
            !.isDialogOpen = FALSE, !.newMeetingName = <<>>, !.life = "left"]

\* The response of the POST arrives.  On failure createMeeting returns null
\* (it does not throw); on success it awaits fetchMeetings when the list it
\* holds is not empty, and returns the meeting otherwise.
ListCreateResp ==
  /\ list.createPc = "post"
  /\ list' =
       IF ~list.createOk
       THEN [list EXCEPT !.error = CreateMeetingError, !.loading = FALSE,
                         !.createPc = "idle", !.isCreating = FALSE]
       ELSE IF list.meetings > 0
       THEN [list EXCEPT !.loading = TRUE, !.error = NoError,
                         !.createPc = "refresh", !.createResp = StoreListMeetings]
       ELSE ListCreated(list)
  /\ UNCHANGED <<storeVars, detailVars, rec, resolved, groupMeetings>>

\* The response of the fetchMeetings awaited by createMeeting arrives;
\* createMeeting returns the meeting.
ListCreateRefreshResp ==
  /\ list.createPc = "refresh"
  /\ \E ok \in BOOLEAN :
       list' = ListCreated([list EXCEPT
                              !.meetings = IF ok THEN list.createResp ELSE @,
                              !.error = IF ok THEN @ ELSE FetchMeetingsError])
  /\ UNCHANGED <<storeVars, detailVars, rec, resolved, groupMeetings>>

\* navigateToMeeting: a row of the table is clicked and the view is left.
ListNavigateToMeeting ==
  /\ list.life = "mounted" /\ ~list.isDialogOpen /\ ListRowsShown
  /\ list' = [list EXCEPT !.life = "left"]
  /\ UNCHANGED <<storeVars, detailVars, rec, resolved, groupMeetings>>

\* ---------------------------------------------------------- specifications
\* A meeting as handleCreateMeeting creates it: no transcript, no summary.
NewMeeting == Meeting("M", NullText, NullSummary)

InitStore ==
  /\ storeMeeting = NewMeeting
  /\ storeAudio = {}
  /\ jobs = [a \in AudioIds |-> "none"]

InitDetail ==
  /\ currentMeeting = NullMeeting
  /\ meetingLoading = FALSE /\ meetingError = NoError
  /\ audioLoading = FALSE /\ audioError = NoError
  /\ lifecycle = "created"
  /\ audioFiles = {}
  /\ showDeleteDialog = FALSE /\ audioToDelete = NoFile
  /\ deleteError = NoError /\ deletingAudio = {}
  /\ pollingInterval = NoTimer /\ pollCount = 0 /\ timers = {}
  /\ stoppedOnReady = FALSE /\ pollFetches = 0
  /\ watchOld = FALSE
  /\ micro = <<>>
  /\ flow = IdleFlow
  /\ polls = [s \in Slots |-> IdlePoll]

InitRecord == rec = [v \in RecordViews |-> ClosedRecordView]

Init == InitStore /\ InitDetail /\ InitRecord /\ InitListView /\ resolved = "none"

Service == \E a \in AudioIds : ServiceSetTranscript(a) \/ ServiceSetSummary(a)

\* Mounting, the initial load, the watcher and the polling controller, with at
\* most n poll callbacks in flight.
NextPolling(n) ==
  \/ Mount
  \/ LoadMeetingResp
  \/ LoadAudioResp
  \/ RunWatcher
  \/ RunMountCheck
  \/ Unmount
  \/ \E t \in TimerIds : Tick(t, n)
  \/ \E s \in Slots : PollMeetingResp(s)
  \/ \E s \in Slots : PollAudioResp(s)

NextDetail ==
  \/ NextPolling(MaxInFlight)
  \/ TryAgain
  \/ \E f \in AudioIds : OpenDeleteDialog(f)
  \/ CancelDelete
  \/ ConfirmDeleteAudio
  \/ DelDeleteResp
  \/ DelClearResp
  \/ DelRefreshResp

NextRecord(views) ==
  \E v \in views :
    \/ RecMount(v)
    \/ RecLoadMeetingResp(v)
    \/ RecLoadAudioResp(v)
    \/ RecStartRecording(v)
    \/ RecStopRecording(v)
    \/ RecHandleFileChange(v)
    \/ RecSwitchTab(v)
    \/ RecSaveAudio(v)
    \/ RecUploadResp(v)
    \/ RecRefreshResp(v)
    \/ RecGoBack(v)

\* Record views and the processing service on one meeting.
NextAttach == NextRecord(RecordViews) \/ Service

SpecAttach == Init /\ [][NextAttach]_vars

\* An upload to the meeting by a record view outside the detail view's
\* window: what saveAudio and uploadAudioFile do to the store.
Upload ==
  /\ FreshAudioIds # {}
  /\ Cardinality(AudioIds \ FreshAudioIds) < MaxUploads
  /\ storeAudio' = UploadCreates(storeAudio, NextAudioId)
  /\ jobs' = [jobs EXCEPT ![NextAudioId] = "queued"]
  /\ UNCHANGED <<storeMeeting, detailVars, rec, resolved, listVars>>

\* The detail view, uploads to its meeting and the processing service.
Next == NextDetail \/ Upload \/ Service

Spec == Init /\ [][Next]_vars

\* The detail view opened on a meeting id that may not exist.  No record is
\* created for a meeting that does not exist.
InitLoad ==
  /\ storeMeeting \in {NullMeeting, NewMeeting}
  /\ storeAudio = {}
  /\ jobs = [a \in AudioIds |-> "none"]
  /\ InitDetail /\ InitRecord /\ InitListView /\ resolved = "none"

NextLoad == NextDetail \/ (~storeMeeting.isNull /\ Upload) \/ Service

SpecLoad == InitLoad /\ [][NextLoad]_vars

\* The polling controller with overlapping callbacks: a response that takes
\* longer than the interval leaves its callback in flight at the next tick.
NextOverlap == NextPolling(MaxOverlap) \/ Upload \/ Service

SpecOverlap == Init /\ [][NextOverlap]_vars

\* ------------------------------------------------- status resolver, alone
\* Every text of at most MaxLen characters, every summary object over the
\* keys, every list of audio records.
RECURSIVE TextsUpTo(_)
TextsUpTo(n) ==
  IF n = 0 THEN {<<>>}
  ELSE LET shorter == TextsUpTo(n - 1) IN
       shorter \cup {Append(t, c) : t \in {u \in shorter : Len(u) = n - 1}, c \in Chars}

ResolverTranscripts == {NullText} \cup {Text(t) : t \in TextsUpTo(MaxLen)}
ResolverSummaries ==
  {NullSummary}
    \cup {Summary(ks, <<>>) : ks \in SUBSET SummaryKeys}
    \cup {Summary(ks, t) : ks \in {k \in SUBSET SummaryKeys : "summary" \in k},
                           t \in TextsUpTo(MaxLen)}
ResolverMeetings ==
  {NullMeeting}
    \cup {Meeting("M", t, sm) : t \in ResolverTranscripts, sm \in ResolverSummaries}

InitResolve ==
  /\ InitStore /\ InitRecord /\ InitListView
  /\ currentMeeting \in ResolverMeetings
  /\ audioFiles \in SUBSET AudioIds
  /\ meetingLoading = FALSE /\ meetingError = NoError
  /\ audioLoading = FALSE /\ audioError = NoError
  /\ lifecycle = "mounted"
  /\ showDeleteDialog = FALSE /\ audioToDelete = NoFile
  /\ deleteError = NoError /\ deletingAudio = {}
  /\ pollingInterval = NoTimer /\ pollCount = 0 /\ timers = {}
  /\ stoppedOnReady = FALSE /\ pollFetches = 0
  /\ watchOld = FALSE
  /\ micro = <<>>
  /\ flow = IdleFlow
  /\ polls = [s \in Slots |-> IdlePoll]
  /\ resolved = "none"

\* The template evaluates the computed properties.
Resolve ==
  /\ resolved' = status
  /\ UNCHANGED <<storeVars, detailVars, rec, listVars>>

NextResolve == Resolve

SpecResolve == InitResolve /\ [][NextResolve]_vars

\* ------------------------------------------- clearing the derived fields, alone
\* Every stored meeting and every set of audio records; the clearing update
\* is applied to the store, and the resolver to what it leaves.
InitClear ==
  /\ storeMeeting \in ResolverMeetings \ {NullMeeting}
  /\ storeAudio \in SUBSET AudioIds
  /\ jobs = [a \in AudioIds |-> "none"]
  /\ InitDetail /\ InitRecord /\ InitListView /\ resolved = "none"

ClearCall ==
  /\ storeMeeting' = ClearedMeeting(storeMeeting)
  /\ resolved' = StatusOf(storeAudio, storeMeeting')
  /\ UNCHANGED <<storeAudio, jobs, detailVars, rec, listVars>>

NextClear == ClearCall

SpecClear == InitClear /\ [][NextClear]_vars

\* The meeting list view of a group that holds any number of meetings.
InitList ==
  /\ InitStore /\ InitDetail /\ InitRecord /\ resolved = "none"
  /\ groupMeetings \in 0..MaxMeetings
  /\ list = ClosedListView

NextList ==
  \/ ListMount
  \/ ListFetchResp
  \/ ListOpenDialog
  \/ \E name \in MeetingNames : ListTypeName(name)
  \/ ListCancelDialog
  \/ ListDialogChange
  \/ ListCreateMeeting
  \/ ListCreateResp
  \/ ListCreateRefreshResp
  \/ ListNavigateToMeeting

SpecList == InitList /\ [][NextList]_vars

\* ------------------------------------------------------------------ claims
\* The claims' own reading of "present", written without the view's code.
TranscriptPresent(m) ==
  /\ ~m.isNull /\ ~m.transcript.isNull
  /\ \E i \in 1..Len(m.transcript.text) : m.transcript.text[i] # " "
SummaryPresent(m) ==
  /\ ~m.isNull /\ ~m.summary.isNull
  /\ m.summary.keys # {}
  /\ "summary" \in m.summary.keys /\ Len(m.summary.summary) > 0

\* C1: the status the detail view computes is `empty` iff there is no audio
\* record, `ready` iff there is one and transcript and summary are both
\* present, `processing` in every other case.
C1_StatusResolver ==
  resolved # "none" =>
    LET n == Cardinality(audioFiles)
        both == TranscriptPresent(currentMeeting) /\ SummaryPresent(currentMeeting)
    IN /\ resolved \in {"empty", "processing", "ready"}
       /\ (resolved = "empty") <=> (n = 0)
       /\ (resolved = "ready") <=> (n > 0 /\ both)
       /\ (resolved = "processing") <=> (n > 0 /\ ~both)

\* The resolver has answered `ready` for a transcript that starts with a blank.
C1_Witness ==
  /\ resolved = "ready"
  /\ Len(currentMeeting.transcript.text) > 1
  /\ currentMeeting.transcript.text[1] = " "

\* C2: an upload to a meeting that already has an audio record fails with a
\* conflict and creates no second record.
C2_AttachConflict ==
  [][\A v \in RecordViews :
       (rec[v].pc = "open" /\ rec'[v].pc = "uploading" /\ storeAudio # {})
         => (~rec'[v].upOk /\ storeAudio' = storeAudio)]_vars

\* C3: in every reachable state the meeting has at most one audio record.
C3_AtMostOneAudio == Cardinality(storeAudio) <= 1

\* A poll callback of the detail view ends in this step.
PollEnds(s) == polls[s].pc = "audio" /\ polls'[s].pc = "idle"

\* A fetch of a poll callback of the mounted view fails in this step: only a
\* failed meeting fetch ends the callback before its audio fetch, and only a
\* failed audio fetch of the callback can put the audio fetch's message into
\* error.value.
FailedPollFetch ==
  /\ lifecycle = "mounted"
  /\ \E s \in Slots :
       \/ polls[s].pc = "meeting" /\ polls'[s].pc = "idle"
       \/ PollEnds(s) /\ meetingError # FetchAudioError
                      /\ meetingError' = FetchAudioError

\* C4: a poll callback that has fetched a meeting with transcript and summary
\* both present leaves no interval timer alive when it ends, and from then on,
\* until polling is started again, the polling controller of the mounted view
\* issues no fetch: no callback begins its meeting fetch or goes on to its
\* audio fetch.
C4_StopsOnReady ==
  [][/\ \A s \in Slots :
          (PollEnds(s) /\ TranscriptPresent(polls[s].meeting)
                       /\ SummaryPresent(polls[s].meeting))
            => (pollingInterval' = NoTimer /\ timers' = {})
     /\ (lifecycle = "mounted" /\ stoppedOnReady)
            => \A s \in Slots :
                 /\ ~(polls[s].pc = "idle" /\ polls'[s].pc = "meeting")
                 /\ ~(polls[s].pc = "meeting" /\ polls'[s].pc = "audio")]_vars

\* C5: polling is bounded by MAX_POLL_COUNT iterations, and a poll never
\* takes the displayed status from `processing` to `empty` while the audio
\* record is still in the store.
C5_KeepsProcessing ==
  /\ [](pollCount <= MAX_POLL_COUNT)
  /\ [][\A s \in Slots :
          (lifecycle = "mounted" /\ PollEnds(s)
             /\ status = "processing" /\ status' = "empty")
            => storeAudio = {}]_vars

\* C6: a failed fetch of a polling tick changes neither the displayed status
\* nor the polling timer, and gives the status watcher nothing to react to.
C6_FailedPollKeepsPolling ==
  [][FailedPollFetch =>
       (status' = status /\ pollingInterval' = pollingInterval /\ timers' = timers
          /\ micro' = <<>>)]_vars

\* C7: in every state reached by a failed poll fetch the view's error value
\* is not set.
C7_PollErrorNotSurfaced ==
  [][FailedPollFetch => (meetingError' = NoError /\ audioError' = NoError)]_vars

\* C8: when the delete succeeded and the clear failed, the flow ends with an
\* error message on display.
C8_PartialFailureShown ==
  [][(lifecycle = "mounted" /\ flow.pc = "delRefresh" /\ flow'.pc = "idle"
        /\ flow.delOk /\ ~flow.clearOk)
       => (deleteError' # NoError \/ meetingError' # NoError \/ audioError' # NoError)]_vars

\* C9: the clear is never issued while the audio record being deleted is
\* still in the store.
C9_ClearAfterDelete ==
  [][(flow.pc = "delDelete" /\ flow'.pc = "delClear") => flow.fileId \notin storeAudio]_vars

\* C10: after teardown no polling timer is alive.
C10_NoTimerAfterTeardown == lifecycle = "unmounted" => timers = {}

\* startPolling() is called in this step: by the watcher's job when the value
\* it watches has become true, or by the mount hook after its load.
StartsPolling ==
  /\ micro # <<>> /\ micro' = Tail(micro)
  /\ isWaitingForProcessing
  /\ Head(micro) = "mountCheck" \/ isWaitingForProcessing # watchOld

\* C11: at most one interval timer is alive in every state, and every call of
\* startPolling, also one made while a timer is held, ends with exactly one
\* timer alive, held by the view, and the iteration counter at 0.
C11_OneTimer ==
  /\ [](Cardinality(timers) <= 1)
  /\ [][StartsPolling =>
          /\ pollCount' = 0
          /\ pollingInterval' # NoTimer
          /\ timers' = {pollingInterval'}]_vars

\* The watcher has started polling during the initial load and the mount
\* hook is about to call startPolling on the held timer.
C11_Witness ==
  /\ lifecycle = "mounted"
  /\ micro = <<"mountCheck">>
  /\ isWaitingForProcessing
  /\ pollingInterval # NoTimer /\ pollingInterval \in timers

\* A poll callback of the mounted view ends having been answered with an
\* empty list of audio records.
PollObservesNoAudio ==
  /\ lifecycle = "mounted"
  /\ \E s \in Slots : PollEnds(s) /\ polls[s].audio = {}

LoadCompletesProcessing ==
  /\ lifecycle = "mounted"
  /\ flow.pc = "loadAudio" /\ flow'.pc = "idle"
  /\ status' = "processing"

TimerHeld == pollingInterval # NoTimer /\ pollingInterval \in timers

\* C13: when a load of the mounted view returns with data that resolve to
\* `processing`, polling is on once the microtasks the load queued have run:
\* the timer is held when the load returns with nothing queued, and it is
\* held when the last queued microtask has run with the view still waiting.
C13_LoadStartsPolling ==
  [][/\ (LoadCompletesProcessing /\ micro' = <<>>) => TimerHeld'
     /\ (lifecycle = "mounted" /\ micro # <<>> /\ micro' = <<>>
           /\ status' = "processing") => TimerHeld']_vars

\* The initial load of the mounted view returns in this step after one of its
\* two fetches failed: the meeting fetch left currentMeeting null, or the
\* audio fetch fails now.
InitialLoadFails ==
  /\ lifecycle = "mounted"
  /\ flow.pc = "loadAudio" /\ flow.kind = "mount" /\ flow'.pc = "idle"
  /\ currentMeeting.isNull \/ meetingError' = FetchAudioError

\* C14: an initial load with a failed fetch ends in the error display.
C14_LoadFailureBlocks == [][InitialLoadFails => Display' = "error"]_vars

\* A load of the mounted view returns in this step, the meeting id does not
\* exist in the store, and the fetch of the audio records was answered.
LoadOfMissingMeetingEnds ==
  /\ lifecycle = "mounted"
  /\ storeMeeting.isNull
  /\ flow.pc = "loadAudio" /\ flow'.pc = "idle"
  /\ meetingError' # FetchAudioError

ReadyDeleteSucceeds ==
  /\ lifecycle = "mounted"
  /\ flow.pc = "delRefresh" /\ flow'.pc = "idle"
  /\ flow.fromReady /\ flow.delOk /\ flow.clearOk
  /\ meetingError' = NoError

\* C16: after a successful delete of the one audio record of a `ready`
\* meeting, the store has no audio record, transcript "" and summary {}, and
\* the view has the same; both resolve to `empty`.
C16_DeleteClears ==
  [][ReadyDeleteSucceeds =>
       /\ storeAudio' = {}
       /\ storeMeeting'.transcript = EmptyText
       /\ storeMeeting'.summary = EmptySummary
       /\ StatusOf(storeAudio', storeMeeting') = "empty"
       /\ audioFiles' = {}
       /\ currentMeeting'.transcript = EmptyText
       /\ currentMeeting'.summary = EmptySummary
       /\ status' = "empty"]_vars

PollSucceeds(s) ==
  /\ lifecycle = "mounted"
  /\ PollEnds(s) /\ polls[s].audio # {}
  /\ meetingError' = NoError

\* C18: with the audio record uploaded and the view polling, a poll answered
\* while the store holds the transcript only leaves the view at `processing`;
\* a poll that fetched transcript and summary leaves the view at `ready` with
\* no timer alive.
C18_ProcessingThenReady ==
  [][\A s \in Slots :
       PollSucceeds(s) =>
         /\ (storeAudio # {} /\ TranscriptPresent(storeMeeting)
               /\ ~SummaryPresent(storeMeeting)) => status' = "processing"
         /\ (TranscriptPresent(polls[s].meeting) /\ SummaryPresent(polls[s].meeting))
              => (status' = "ready" /\ pollingInterval' = NoTimer /\ timers' = {})]_vars

\* The status the stored meeting and its stored audio records resolve to.
StoreStatus == StatusOf(storeAudio, storeMeeting)

\* C19: the stored meeting's status changes only from `empty` to
\* `processing`, from `processing` to `ready`, or to `empty` by the deletion of
\* its last audio record; it never goes from `ready` back to `processing`.
C19_StatusForwardOnly ==
  [][StoreStatus' # StoreStatus =>
       \/ StoreStatus = "empty" /\ StoreStatus' = "processing"
       \/ StoreStatus = "processing" /\ StoreStatus' = "ready"
       \/ StoreStatus' = "empty" /\ storeAudio # {} /\ storeAudio' = {}]_vars

\* The record view v is mounted and the list it queried for its meeting is
\* not empty.
GateClosed(v) == rec[v].pc # "closed" /\ rec[v].existingAudioFiles # {}

\* C20: while the list a record view queried is not empty, no step starts a
\* recording in it, selects a file in it or issues its upload, the store's
\* audio records stay as they are unless another view uploads, and the view
\* shows that the meeting already has a recording.
C20_GateBlocks ==
  [][\A v \in RecordViews :
       GateClosed(v) =>
         /\ rec[v].errorMessage = AlreadyHasAudioError
         /\ ~(rec[v].recordingStatus # "recording" /\ rec'[v].recordingStatus = "recording")
         /\ ~(~rec[v].selectedFile /\ rec'[v].selectedFile)
         /\ ~(~rec[v].audioUrl /\ rec'[v].audioUrl /\ rec[v].recordingStatus = "inactive")
         /\ ~(rec[v].pc # "uploading" /\ rec'[v].pc = "uploading")
         /\ (rec'[v] # rec[v] => storeAudio' = storeAudio)]_vars

\* A record view is open on a meeting whose audio record it has found.
C20_Witness ==
  \E v \in RecordViews :
    /\ rec[v].pc = "open"
    /\ rec[v].existingAudioFiles # {} /\ rec[v].existingAudioFiles = storeAudio

\* A step writes the stored meeting's transcript or summary.
WritesTranscriptOrSummary ==
  \/ storeMeeting'.transcript # storeMeeting.transcript
  \/ storeMeeting'.summary # storeMeeting.summary

\* The step is the clearing update of the delete flow.
ClearStep == flow.pc = "delDelete" /\ flow'.pc = "delClear" /\ flow'.clearOk

\* C21: the stored transcript and summary are written only by a job of the
\* processing service or by the clearing update of the delete flow, which
\* sets them to "" and {}; mounting, loading, polling, uploading and the
\* other steps of the delete flow leave both as they are.
C21_OnlyServiceOrClearWrites ==
  [][WritesTranscriptOrSummary =>
       \/ jobs' # jobs /\ flow' = flow /\ currentMeeting' = currentMeeting
       \/ /\ ClearStep /\ jobs' = jobs
          /\ storeMeeting'.transcript = EmptyText
          /\ storeMeeting'.summary = EmptySummary]_vars

\* The clearing update of a delete flow begun on a ready meeting has emptied
\* the stored transcript and summary.
C21_Witness ==
  /\ flow.pc = "delClear" /\ flow.clearOk /\ flow.fromReady
  /\ storeMeeting.transcript = EmptyText /\ storeMeeting.summary = EmptySummary

\* The delete flow of the mounted view ends in this step; it began on a
\* ready meeting whose one record holds the only upload, so the store has
\* changed by the flow's own requests only, and no poll callback is in flight.
DeleteFlowEndsQuietly ==
  /\ lifecycle = "mounted"
  /\ flow.pc = "delRefresh" /\ flow'.pc = "idle"
  /\ flow.fromReady
  /\ \A s \in Slots : polls[s].pc = "idle"

\* C22: when a delete flow has completed, whether its delete request
\* succeeded or failed, the view's meeting and its audio list are the
\* store's.
C22_ViewEqualsStoreAfterDelete ==
  [][DeleteFlowEndsQuietly =>
       /\ currentMeeting' = storeMeeting'
       /\ audioFiles' = storeAudio']_vars

\* A step of a poll callback: a tick that issues its meeting fetch, or the
\* arrival of the response of one of its two fetches.
PollFetchStep == polls' # polls

\* C23: the fetches of a poll callback are silent: issuing them, and their
\* succeeding or failing, leaves the hook's loading flag as it was, set or
\* not.
C23_PollLeavesLoading ==
  [][PollFetchStep => meetingLoading' = meetingLoading]_vars

\* A poll callback awaits its audio fetch while a fetch that shows loading is
\* in flight.
C23_Witness ==
  /\ lifecycle = "mounted" /\ meetingLoading
  /\ \E s \in Slots : polls[s].pc = "audio"

\* The response of a failed delete request reaches the mounted view's delete
\* flow in this step.
DeleteRequestFails ==
  /\ lifecycle = "mounted"
  /\ flow.pc = "delDelete" /\ flow'.pc # "delDelete"
  /\ ~flow.delOk

\* C24: when the delete request of the delete flow fails, the dialog shows
\* 'Failed to delete the audio file. Please try again.', the record stays in
\* the displayed list, and the stored transcript and summary are not written.
C24_FailedDeleteShown ==
  [][DeleteRequestFails =>
       /\ deleteError' = DeleteDialogError
       /\ showDeleteDialog'
       /\ (flow.fileId \in audioFiles => flow.fileId \in audioFiles')
       /\ storeMeeting'.transcript = storeMeeting.transcript
       /\ storeMeeting'.summary = storeMeeting.summary]_vars

\* The response of a failed upload reaches the save action of record view v
\* in this step.
UploadRequestFails(v) ==
  /\ rec[v].pc = "uploading" /\ rec'[v].pc # "uploading"
  /\ ~rec[v].upOk

\* C25: when the upload of the save action fails, the record view stays on
\* its page and shows 'Failed to save audio. Please try again.'; the save
\* action navigates away only after a successful upload.
C25_FailedUploadShown ==
  [][\A v \in RecordViews :
       UploadRequestFails(v) =>
         /\ rec'[v].pc = "open"
         /\ rec'[v].errorMessage = SaveError]_vars

\* The tick whose count reaches the limit stops the timer in this step: the
\* polling session ends without having observed a terminal status.
PollingExpires ==
  /\ lifecycle = "mounted"
  /\ pollingInterval # NoTimer /\ pollingInterval' = NoTimer
  /\ pollCount' = pollCount + 1
  /\ PollLimitReached(pollCount')

\* C26: the iteration counter never exceeds 60, and a polling session that
\* ends by the limit has issued exactly 60 meeting fetches when its timer is
\* stopped.
C26_SixtyFetches ==
  [][/\ pollCount' <= MAX_POLL_COUNT
     /\ PollingExpires => pollFetches' = MAX_POLL_COUNT]_vars

\* The delete flow of the mounted view has deleted its record in the store
\* and removed it from the displayed list.
DeleteFlowRemoved ==
  /\ lifecycle = "mounted"
  /\ flow.pc \in {"delClear", "delRefresh"} /\ flow.delOk
  /\ flow.fileId \notin audioFiles

\* C27: a record the delete flow has removed from the displayed list is not
\* put back by any step: no response of a poll issued before the delete is
\* applied to the list after it.
C27_DeletedStaysDeleted ==
  [][DeleteFlowRemoved => flow.fileId \notin audioFiles']_vars

\* A poll callback in flight goes on in this step although the view holds no
\* polling timer: stopPolling has run since the callback was started.
CallbackAfterStop ==
  /\ pollingInterval = NoTimer /\ timers = {}
  /\ \E s \in Slots : polls[s].pc # "idle" /\ polls'[s] # polls[s]

\* C28: once the polling timer has been stopped, a poll callback in flight
\* issues no further request and writes neither the view's meeting nor its
\* audio list.
C28_StoppedCallbackInert ==
  [][CallbackAfterStop =>
       /\ \A s \in Slots : ~(polls[s].pc = "meeting" /\ polls'[s].pc = "audio")
       /\ currentMeeting' = currentMeeting
       /\ audioFiles' = audioFiles]_vars

\* A delete flow of the detail view is between its first request and its end.
DeleteInProgress == flow.pc \in {"delDelete", "delClear", "delRefresh"}

\* C29: whenever no delete flow is in progress, a stored meeting with no
\* audio record has neither a transcript nor a summary.
C29_NoAudioNoTranscript ==
  (~DeleteInProgress /\ storeAudio = {}) =>
     (~TranscriptPresent(storeMeeting) /\ ~SummaryPresent(storeMeeting))

\* C30: in every state the list view's hook instance has loading set exactly
\* when at least one of its operations is awaiting a response, also while
\* the mount hook's fetchMeetings and a createMeeting overlap.
C30_LoadingWhileInFlight == list.loading <=> ListOpsInFlight > 0

====
